---------------------------- MODULE Spec2Model ----------------------------
(***************************************************************************)
(* Model of the RL traffic-engineering decision loop of CloudSimSDN:       *)
(*   src/RL/flow_manager.py  RLFlowManager (path-impact selector) and      *)
(*                           select_critical_flows_via_bridge              *)
(*   src/RL/rl_env.py        CloudSimSDNEnv (reset, step, reward)          *)
(*                                                                         *)
(* Numbers.  Every real quantity (utilization, capacity, queue length,     *)
(* bandwidth, latency, reward) is an integer number of tenths, so 0.9 is 9 *)
(* and 1e6 is 10000000.  A score is an exact fraction <<num, den>> in      *)
(* lowest terms with den > 0.  max_reroute_ratio is a whole percentage:    *)
(* 0.15 is 15.                                                             *)
(* For the values used here int(n * ratio) in floating point agrees with   *)
(* the exact truncation of n * pct / 100.  Time is counted in ticks of     *)
(* half a second.                                                          *)
(***************************************************************************)
EXTENDS Integers, Sequences, FiniteSets

VARIABLES
    selector,           \* which selector this run exercises
    max_reroute_ratio,  \* RLFlowManager.max_reroute_ratio (percent)
    flow_stats,         \* RLFlowManager.flow_stats, in insertion order
    link_stats,         \* RLFlowManager.link_stats
    last_update_time,   \* RLFlowManager.last_update_time (ticks)
    decided_at,         \* history: current_time of the latest call that computed
                        \* a selection, 0 when there is none
    mgr_call,           \* the most recent RLFlowManager operation and its return
    impact_call,        \* a calculate_congestion_impact call and its return
    br_in,              \* arguments of a select_critical_flows_via_bridge call
    br_ret,             \* its return value
    env,                \* CloudSimSDNEnv fields set by __init__
    bridge,             \* what the Java bridge currently answers
    pc,                 \* READY, or the phase of step() about to run
    op,                 \* the CloudSimSDNEnv method in progress or just ended
    phases,             \* history: the phases this call has run, in order
    calls,              \* history: the bridge calls this call has made, in order
    prev_state,         \* step(): prev_state
    selected,           \* step(): selected
    replies,            \* history: what rerouteFlow answered, per selected flow
    results,            \* step(): results
    curr_state,         \* step(): curr_state (reset(): state)
    reward,             \* step(): reward
    obs,                \* the observation built by step() or reset()
    out,                \* what the call returned or raised
    rw_in,              \* arguments of a _calculate_reward call
    rw_ret              \* its return value

sel_vars == <<selector, max_reroute_ratio, flow_stats, link_stats,
              last_update_time, decided_at, mgr_call, impact_call, br_in,
              br_ret>>

env_vars == <<env, bridge, pc, op, phases, calls, prev_state, selected,
              replies, results, curr_state, reward, obs, out>>

rw_vars == <<rw_in, rw_ret>>

vars == <<sel_vars, env_vars, rw_vars>>

-----------------------------------------------------------------------------
(* Bounds of the model *)

MaxFlows == 3
MaxK == 1
MaxTime == 3
EnvMaxFlows == 2
EnvMaxLinks == 1
MaxSnapFlows == 2
MaxSnapLinks == 1

-----------------------------------------------------------------------------
(* Python and arithmetic helpers *)

Min(a, b) == IF a <= b THEN a ELSE b

Max(a, b) == IF a >= b THEN a ELSE b

\* int(num / den) for den > 0: truncation toward zero
IntTrunc(num, den) == IF num >= 0 THEN num \div den ELSE -((-num) \div den)

\* floor(num / den) for den > 0
Floor(num, den) == num \div den

\* s[:k]: the first k elements, or all but the last -k when k is negative
PySlicePrefix(s, k) ==
    IF k >= 0 THEN SubSeq(s, 1, Min(k, Len(s)))
    ELSE SubSeq(s, 1, Max(0, Len(s) + k))

\* exact fractions <<num, den>>, den > 0, kept in lowest terms
RECURSIVE Gcd(_, _)
Gcd(a, b) == IF b = 0 THEN a ELSE Gcd(b, a % b)

Abs(a) == IF a >= 0 THEN a ELSE -a

Rat(num, den) ==
    LET g == Gcd(Abs(num), den) IN <<num \div g, den \div g>>

RatLess(a, b) == a[1] * b[2] < b[1] * a[2]

RatEq(a, b) == a[1] * b[2] = b[1] * a[2]

RatAdd(a, b) == Rat(a[1] * b[2] + b[1] * a[2], a[2] * b[2])

RatPositive(a) == a[1] > 0

\* list.sort / sorted with key = score, reverse = True.  Python's sort is
\* stable and reverse = True keeps the original order of equal keys, so an
\* item goes after every item whose score is not smaller.
RECURSIVE InsertDescBeforeEqual(_, _)
InsertDescBeforeEqual(sorted, x) ==
    IF sorted = <<>> THEN <<x>>
    ELSE IF RatLess(x.score, Head(sorted).score)
         THEN <<Head(sorted)>> \o InsertDescBeforeEqual(Tail(sorted), x)
         ELSE <<x>> \o sorted

RECURSIVE InsertDesc(_, _)
InsertDesc(sorted, x) ==
    IF sorted = <<>> THEN <<x>>
    ELSE IF RatLess(Head(sorted).score, x.score)
         THEN <<x>> \o sorted
         ELSE <<Head(sorted)>> \o InsertDesc(Tail(sorted), x)

RECURSIVE PySortedDescFrom(_, _)
PySortedDescFrom(acc, items) ==
    IF items = <<>> THEN acc
    ELSE PySortedDescFrom(InsertDesc(acc, Head(items)), Tail(items))

PySortedDesc(items) == PySortedDescFrom(<<>>, items)

Ids(items) == [i \in 1..Len(items) |-> items[i].id]

-----------------------------------------------------------------------------
(* RLFlowManager *)

\* 1.0 second, in ticks
update_interval == 2

LinkPool == {"L1", "L2"}

\* FlowStats records pushed by callers (the fields the selector reads):
\* bandwidth 2.0 over L1, and bandwidth 1.0 over L1 then L2
StatOverL1 == [bandwidth |-> 20, current_path |-> <<"L1">>]

StatOverL1L2 == [bandwidth |-> 10, current_path |-> <<"L1", "L2">>]

\* the update_flow_stats calls drawn: any flow id with the first record
\* (equal records give equal scores), flow 1 also with the second
FlowUpdates ==
    {<<f, StatOverL1>> : f \in 1..MaxFlows} \cup {<<1, StatOverL1L2>>}

\* the update_link_stats calls drawn: L1 congested and queued, L2 nearly idle
LinkUpdates ==
    { <<"L1", [utilization |-> 9, capacity |-> 10, queue_length |-> 2]>>,
      <<"L2", [utilization |-> 1, capacity |-> 10, queue_length |-> 0]>> }

UnknownLink ==
    [known |-> FALSE, utilization |-> 0, capacity |-> 10, queue_length |-> 0]

RatioPcts == {-50, 15, 50, 100}

Ks == (-1..MaxK) \cup {10}

Times == 0..MaxTime

HasFlow(fs, flow_id) == \E i \in 1..Len(fs) : fs[i].id = flow_id

FlowIndex(fs, flow_id) == CHOOSE i \in 1..Len(fs) : fs[i].id = flow_id

\* self.flow_stats[flow_id] = stats: a new key goes last, a known key keeps its place
DictPut(fs, flow_id, stats) ==
    LET entry == [id |-> flow_id, bandwidth |-> stats.bandwidth,
                  current_path |-> stats.current_path]
    IN IF HasFlow(fs, flow_id)
       THEN [fs EXCEPT ![FlowIndex(fs, flow_id)] = entry]
       ELSE Append(fs, entry)

RECURSIVE PathImpactUtilizationOnly(_, _)
PathImpactUtilizationOnly(ls, path) ==
    IF path = <<>> THEN <<0, 1>>
    ELSE LET link == ls[Head(path)]
             rest == PathImpactUtilizationOnly(ls, Tail(path))
         IN IF link.known
            THEN RatAdd(Rat(link.utilization, link.capacity), rest)
            ELSE rest

RECURSIVE PathImpact(_, _)
PathImpact(ls, path) ==
    IF path = <<>> THEN <<0, 1>>
    ELSE LET link == ls[Head(path)]
             rest == PathImpact(ls, Tail(path))
         IN IF link.known
            THEN RatAdd(RatAdd(Rat(link.utilization, link.capacity),
                               Rat(link.queue_length, link.capacity)), rest)
            ELSE rest

calculate_congestion_impact(fs, ls, flow_id) ==
    IF ~HasFlow(fs, flow_id) THEN <<0, 1>>
    ELSE LET flow == fs[FlowIndex(fs, flow_id)]
             impact == PathImpact(ls, flow.current_path)
         IN Rat(impact[1] * flow.bandwidth, impact[2] * 10)

flow_impacts(fs, ls) ==
    [i \in 1..Len(fs) |->
        [id |-> fs[i].id, score |-> calculate_congestion_impact(fs, ls, fs[i].id)]]

TimeGatedShort(current_time, last) == current_time - last < update_interval - 1

TimeGated(current_time, last) == current_time - last < update_interval

MgrMaxFlowsAtLeastOne(n, ratio) == Max(1, IntTrunc(n * ratio, 100))

MgrMaxFlows(n, ratio) == IntTrunc(n * ratio, 100)

select_critical_flows(fs, ls, ratio, last, current_time, k) ==
    IF TimeGated(current_time, last)
    THEN [ret |-> <<>>, last |-> last, computed |-> FALSE]
    ELSE LET sorted_flows == PySortedDesc(flow_impacts(fs, ls))
             max_flows == MgrMaxFlows(Len(fs), ratio)
             kk == Min(k, max_flows)
         IN [ret |-> Ids(PySlicePrefix(sorted_flows, kk)),
             last |-> current_time, computed |-> TRUE]

\* mgr_call: the operation, its arguments, decided_at and last_update_time
\* as they were when it was called, whether it computed scores, its return
NoCall ==
    [op |-> "none", now |-> 0, k |-> 0, since |-> 0, last_before |-> 0,
     computed |-> FALSE, ret |-> <<>>]

UpdateFlowStats(flow_id, stats) ==
    /\ selector = "RLFlowManager"
    /\ flow_stats' = DictPut(flow_stats, flow_id, stats)
    /\ mgr_call' = [NoCall EXCEPT !.op = "update"]
    /\ UNCHANGED <<selector, max_reroute_ratio, link_stats, last_update_time,
                   decided_at, impact_call, br_in, br_ret, env_vars, rw_vars>>

UpdateLinkStats(link_id, stats) ==
    /\ selector = "RLFlowManager"
    /\ link_stats' = [link_stats EXCEPT ![link_id] =
            [known |-> TRUE, utilization |-> stats.utilization,
             capacity |-> stats.capacity, queue_length |-> stats.queue_length]]
    /\ mgr_call' = [NoCall EXCEPT !.op = "update"]
    /\ UNCHANGED <<selector, max_reroute_ratio, flow_stats, last_update_time,
                   decided_at, impact_call, br_in, br_ret, env_vars, rw_vars>>

SelectCriticalFlows(current_time, k) ==
    /\ selector = "RLFlowManager"
    /\ LET r == select_critical_flows(flow_stats, link_stats, max_reroute_ratio,
                                      last_update_time, current_time, k)
       IN /\ last_update_time' = r.last
          /\ decided_at' = IF r.computed THEN current_time ELSE decided_at
          /\ mgr_call' = [op |-> "select", now |-> current_time, k |-> k,
                          since |-> decided_at, last_before |-> last_update_time,
                          computed |-> r.computed, ret |-> r.ret]
    /\ UNCHANGED <<selector, max_reroute_ratio, flow_stats, link_stats,
                   impact_call, br_in, br_ret, env_vars, rw_vars>>

NoImpactCall == [called |-> FALSE, flow_id |-> 0, ret |-> <<0, 1>>]

\* registries for calculate_congestion_impact: flows of bandwidth 2.0 or 0.5
\* over no link, L1, or L1 then L2; links unknown, or known with
\* (utilization, capacity, queue_length) = (0.9, 1.0, 0.2), (0.1, 1.0, 0.0)
\* or (0.5, 2.0, 1.0)
ImpactBandwidths == {20, 5}

ImpactPaths == {<<>>, <<"L1">>, <<"L1", "L2">>}

ImpactRegistries(maxn) ==
    UNION { [1..n -> {[bandwidth |-> b, current_path |-> p] :
                         b \in ImpactBandwidths, p \in ImpactPaths}] :
            n \in 0..maxn }

ImpactLinks ==
    { UnknownLink,
      [known |-> TRUE, utilization |-> 9, capacity |-> 10, queue_length |-> 2],
      [known |-> TRUE, utilization |-> 1, capacity |-> 10, queue_length |-> 0],
      [known |-> TRUE, utilization |-> 5, capacity |-> 20, queue_length |-> 10] }

\* the registry after update_flow_stats(1, r[1]), ..., update_flow_stats(n, r[n])
RegistryOf(r) ==
    [i \in 1..Len(r) |->
        [id |-> i, bandwidth |-> r[i].bandwidth, current_path |-> r[i].current_path]]

CalculateCongestionImpact(flow_id) ==
    /\ selector = "impact"
    /\ ~impact_call.called
    /\ impact_call' =
          [called |-> TRUE, flow_id |-> flow_id,
           ret |-> calculate_congestion_impact(flow_stats, link_stats, flow_id)]
    /\ UNCHANGED <<selector, max_reroute_ratio, flow_stats, link_stats,
                   last_update_time, decided_at, mgr_call, br_in, br_ret,
                   env_vars, rw_vars>>

-----------------------------------------------------------------------------
(* select_critical_flows_via_bridge *)

\* What the bridge answers for one flow: the observed and expected latency,
\* the requested bandwidth, whether getFlowEndpoints answers None, and which
\* call (if any) raises.  fault = "id" is a flow id that int() rejects.
Telemetry(observed, expected, bandwidth, endpoints, fault) ==
    [obs |-> observed, exp |-> expected, bw |-> bandwidth,
     endpoints |-> endpoints, fault |-> fault]

Profiles ==
    { Telemetry(500, 200, 100, "ok", "none"),
      Telemetry(300, 200, 0, "ok", "none"),
      Telemetry(0, 200, 100, "ok", "none"),
      Telemetry(100, 200, 10, "ok", "none"),
      Telemetry(500, 200, 100, "none", "none"),
      Telemetry(500, 200, 100, "ok", "latency"),
      Telemetry(500, 0, 100, "ok", "none"),
      Telemetry(500, 200, 100, "ok", "bandwidth") }

\* the orders in which the bridge lists n flow ids: ascending and descending
IdOrders(n) == { [i \in 1..n |-> i], [i \in 1..n |-> n + 1 - i] }

FlowListsOver(profiles, n) ==
    { [i \in 1..n |-> [id |-> ids[i], tele |-> ps[i]]] :
        ids \in IdOrders(n), ps \in [1..n -> profiles] }

FlowLists(profiles, maxn) ==
    UNION { FlowListsOver(profiles, n) : n \in 0..maxn }

\* bridge.getFlowIds(): None, or a list of flows
NullFlowIds == [null |-> TRUE, flows |-> <<>>]

BridgeAnswers(profiles, maxn) ==
    {NullFlowIds} \cup
    { [null |-> FALSE, flows |-> fl] : fl \in FlowLists(profiles, maxn) }

LatencyRatioScoreRawBandwidth(t) ==
    IF t.obs <= 0 \/ t.exp <= 0
    THEN <<0, 1>>
    ELSE Rat((t.obs - t.exp) * t.bw, t.exp * 10)

LatencyRatioScore(t) ==
    IF t.obs <= 0 \/ t.exp <= 0
    THEN <<0, 1>>
    ELSE Rat((t.obs - t.exp) * Max(10, t.bw), t.exp * 10)

SkippedOnlyOnRaise(t) == t.fault # "none"

\* the flow is left out of scores: a call raised, or the endpoints are None
Skipped(t) == t.fault # "none" \/ t.endpoints = "none"

RECURSIVE BridgeScores(_)
BridgeScores(flows) ==
    IF flows = <<>> THEN <<>>
    ELSE LET f == Head(flows)
         IN IF Skipped(f.tele)
            THEN BridgeScores(Tail(flows))
            ELSE <<[id |-> f.id, score |-> LatencyRatioScore(f.tele)]>>
                 \o BridgeScores(Tail(flows))

PositiveOnlyOff(items) == items

RECURSIVE PositiveOnly(_)
PositiveOnly(items) ==
    IF items = <<>> THEN <<>>
    ELSE IF RatPositive(Head(items).score)
         THEN <<Head(items)>> \o PositiveOnly(Tail(items))
         ELSE PositiveOnly(Tail(items))

BridgeMaxFlowsAll(n, ratio) == n

\* max(1, int(len(scores) * max_reroute_ratio))
BridgeMaxFlows(n, ratio) == Max(1, IntTrunc(n * ratio, 100))

select_critical_flows_via_bridge(answer, k, ratio) ==
    IF answer.null THEN <<>>
    ELSE LET scores == PySortedDesc(BridgeScores(answer.flows))
         IN IF Len(scores) = 0 THEN <<>>
            ELSE LET max_flows == BridgeMaxFlows(Len(scores), ratio)
                     kk == Min(k, max_flows)
                 IN Ids(PositiveOnly(PySlicePrefix(scores, kk)))

NotCalled == [called |-> FALSE, ret |-> <<>>]

BridgeSelect ==
    /\ selector = "via_bridge"
    /\ ~br_ret.called
    /\ br_ret' = [called |-> TRUE,
                  ret |-> select_critical_flows_via_bridge(br_in.answer, br_in.k,
                                                           br_in.ratio)]
    /\ UNCHANGED <<selector, max_reroute_ratio, flow_stats, link_stats,
                   last_update_time, decided_at, mgr_call, impact_call, br_in,
                   env_vars, rw_vars>>

BridgeInputs ==
    { [answer |-> a, k |-> k, ratio |-> r] :
        a \in BridgeAnswers(Profiles, MaxFlows), k \in Ks,
        r \in RatioPcts }

NoBridgeInput == [answer |-> NullFlowIds, k |-> 0, ratio |-> 0]

-----------------------------------------------------------------------------
(* Values, _normalize_value and _calculate_reward *)

\* a value the bridge hands back or a snapshot holds: a number (in tenths),
\* NaN, +Inf or None; Raises is a bridge call that raises instead
Num(v) == [kind |-> "num", v |-> v]

NaN == [kind |-> "nan", v |-> 0]

Inf == [kind |-> "inf", v |-> 0]

None == [kind |-> "none", v |-> 0]

Raises == [kind |-> "raise", v |-> 0]

\* 1.0, 1e6 and 100.0
MaxUtil == 10
MaxLatency == 10000000
RewardCap == 1000

normalize_value(value, is_utilization) ==
    IF value.kind # "num" THEN 0
    ELSE IF is_utilization THEN Max(0, Min(MaxUtil, value.v))
    ELSE Max(0, Min(MaxLatency, value.v))

RatSub(a, b) == RatAdd(a, <<-b[1], b[2]>>)

RatScale(a, num, den) == Rat(a[1] * num, a[2] * den)

\* v > 0 and np.isfinite(v)
ValidLatency(r) == r.kind = "num" /\ r.v > 0

\* v >= 0 and np.isfinite(v)
ValidUtil(r) == r.kind = "num" /\ r.v >= 0

RECURSIVE ValidLatencies(_)
ValidLatencies(vals) ==
    IF vals = <<>> THEN <<>>
    ELSE IF ValidLatency(Head(vals))
         THEN <<Head(vals).v>> \o ValidLatencies(Tail(vals))
         ELSE ValidLatencies(Tail(vals))

RECURSIVE ValidUtils(_)
ValidUtils(vals) ==
    IF vals = <<>> THEN <<>>
    ELSE IF ValidUtil(Head(vals))
         THEN <<Head(vals).v>> \o ValidUtils(Tail(vals))
         ELSE ValidUtils(Tail(vals))

RECURSIVE SumOf(_)
SumOf(nums) == IF nums = <<>> THEN 0 ELSE Head(nums) + SumOf(Tail(nums))

RECURSIVE MaxOf(_)
MaxOf(nums) ==
    IF Len(nums) = 1 THEN Head(nums) ELSE Max(Head(nums), MaxOf(Tail(nums)))

MeanOf(nums) == Rat(SumOf(nums), Len(nums))

\* comparing None with a number raises TypeError inside the try block
ComparisonRaises(vals) == \E i \in 1..Len(vals) : vals[i].kind = "none"

ClampRewardOff(total) == total

\* float(max(-100.0, min(100.0, total_reward)))
ClampReward(total) ==
    LET capped == IF RatLess(<<RewardCap, 1>>, total) THEN <<RewardCap, 1>> ELSE total
    IN IF RatLess(capped, <<-RewardCap, 1>>) THEN <<-RewardCap, 1>> ELSE capped

\* prev and curr give the values of link_utils and of flow_latencies
calculate_reward(prev, curr) ==
    IF \/ ComparisonRaises(prev.flow_latencies) \/ ComparisonRaises(curr.flow_latencies)
       \/ ComparisonRaises(prev.link_utils) \/ ComparisonRaises(curr.link_utils)
    THEN <<0, 1>>
    ELSE LET prev_latencies == ValidLatencies(prev.flow_latencies)
             curr_latencies == ValidLatencies(curr.flow_latencies)
             latency_reward ==
                 IF prev_latencies # <<>> /\ curr_latencies # <<>>
                 THEN RatSub(MeanOf(prev_latencies), MeanOf(curr_latencies))
                 ELSE <<0, 1>>
             prev_utils == ValidUtils(prev.link_utils)
             curr_utils == ValidUtils(curr.link_utils)
             congestion_reward ==
                 IF prev_utils # <<>> /\ curr_utils # <<>>
                 THEN <<MaxOf(prev_utils) - MaxOf(curr_utils), 1>>
                 ELSE <<0, 1>>
             total_reward == RatAdd(RatScale(latency_reward, 7, 10),
                                    RatScale(congestion_reward, 3, 10))
         IN ClampReward(total_reward)

\* The values of a snapshot enter the reward through a mean, a max and
\* filters, none of which looks at positions, so each collection of values is
\* drawn once, in the order of the tuple it is drawn from.
SortedPicks(choices, n) ==
    { [i \in 1..n |-> choices[ix[i]]] :
        ix \in {s \in [1..n -> 1..Len(choices)] :
                   \A i, j \in 1..n : i < j => s[i] <= s[j]} }

PicksUpTo(choices, maxn) == UNION { SortedPicks(choices, n) : n \in 0..maxn }

SnapLatencies == <<Num(0), Num(300), Num(50000), NaN, None>>

SnapUtils == <<Num(0), Num(8), Inf>>

Snapshots ==
    { [link_utils |-> u, flow_latencies |-> l] :
        u \in PicksUpTo(SnapUtils, MaxSnapLinks),
        l \in PicksUpTo(SnapLatencies, MaxSnapFlows) }

EmptySnapshot == [link_utils |-> <<>>, flow_latencies |-> <<>>]

NoReward == [called |-> FALSE, ret |-> <<0, 1>>]

CalculateReward ==
    /\ ~rw_ret.called
    /\ rw_ret' = [called |-> TRUE, ret |-> calculate_reward(rw_in.prev, rw_in.curr)]
    /\ UNCHANGED <<rw_in, sel_vars, env_vars>>

-----------------------------------------------------------------------------
(* CloudSimSDNEnv *)

EnvFlowPool == 1..EnvMaxFlows

\* the bridge's per-flow answers drawn for the environment: a flow 50.0 late
\* against 20.0 expected, a flow with no latency sample, a flow whose
\* getFlowAvgLatency raises, a flow whose id int() rejects
EnvProfiles ==
    { Telemetry(500, 200, 100, "ok", "none"),
      Telemetry(0, 200, 100, "ok", "none"),
      Telemetry(500, 200, 100, "ok", "latency"),
      Telemetry(500, 200, 100, "ok", "id") }

\* what getLinkAvgUtilization may do for one link: 0.5, 1.5, or raise
UtilReadings == {Num(5), Num(15), Raises}

EnvAnswers == BridgeAnswers(EnvProfiles, EnvMaxFlows)

\* (k, max_reroute_ratio) an environment is constructed with; 10 and 0.15
\* are the defaults
EnvParams == {<<10, 15>>, <<10, 100>>, <<-1, 15>>}

NoLatency == [has |-> FALSE, v |-> 0]

NoState == [link_utils |-> <<>>, flow_latencies |-> [f \in EnvFlowPool |-> NoLatency]]

\* flow_latencies[key] = v
DictSet(d, key, v) == [d EXCEPT ![key] = [has |-> TRUE, v |-> v]]

\* the flow loop of _get_network_state.  fid is assigned inside the try
\* block, so when int(flow_id) raises the handler writes to the fid of the
\* previous iteration, or raises UnboundLocalError when there is none.
RECURSIVE CaptureFlows(_, _)
CaptureFlows(flows, st) ==
    IF flows = <<>> \/ st.raised THEN st
    ELSE LET f == Head(flows)
         IN IF f.tele.fault = "id"
            THEN IF st.bound
                 THEN CaptureFlows(Tail(flows),
                          [st EXCEPT !.lat = DictSet(st.lat, st.fid, 0)])
                 ELSE [st EXCEPT !.raised = TRUE]
            ELSE LET v == IF f.tele.fault = "latency" THEN 0
                          ELSE normalize_value(Num(f.tele.obs), FALSE)
                 IN CaptureFlows(Tail(flows),
                        [raised |-> FALSE, bound |-> TRUE, fid |-> f.id,
                         lat |-> DictSet(st.lat, f.id, v),
                         calls |-> Append(st.calls, "getFlowAvgLatency")])

LinkUtil(reading) ==
    IF reading.kind = "raise" THEN 0 ELSE normalize_value(reading, TRUE)

get_network_state(b, n_links) ==
    LET link_utils == [i \in 1..n_links |-> LinkUtil(b.utils[i])]
        link_calls == [i \in 1..n_links |-> "getLinkAvgUtilization"]
        start == [raised |-> FALSE, bound |-> FALSE, fid |-> 0,
                  lat |-> NoState.flow_latencies, calls |-> <<>>]
    IN IF b.answer.null
       THEN [raised |-> TRUE, why |-> "TypeError",
             calls |-> link_calls \o <<"getFlowIds">>,
             state |-> [link_utils |-> link_utils,
                        flow_latencies |-> NoState.flow_latencies]]
       ELSE LET st == CaptureFlows(b.answer.flows, start)
            IN [raised |-> st.raised,
                why |-> IF st.raised THEN "UnboundLocalError" ELSE "",
                calls |-> link_calls \o <<"getFlowIds">> \o st.calls,
                state |-> [link_utils |-> link_utils, flow_latencies |-> st.lat]]

RECURSIVE LatencyValuesFrom(_, _)
LatencyValuesFrom(lat, id) ==
    IF id > EnvMaxFlows THEN <<>>
    ELSE (IF lat[id].has THEN <<Num(lat[id].v)>> ELSE <<>>)
         \o LatencyValuesFrom(lat, id + 1)

\* link_utils.values() and flow_latencies.values()
Values(state) ==
    [link_utils |-> [i \in 1..Len(state.link_utils) |-> Num(state.link_utils[i])],
     flow_latencies |-> LatencyValuesFrom(state.flow_latencies, 1)]

\* the bridge calls one selector call makes for one flow, up to the one
\* that raises or the absent endpoints
FlowCalls(t) ==
    IF t.fault = "id" THEN <<>>
    ELSE IF t.fault = "latency" THEN <<"getFlowAvgLatency">>
    ELSE IF t.endpoints = "none" THEN <<"getFlowAvgLatency", "getFlowEndpoints">>
    ELSE <<"getFlowAvgLatency", "getFlowEndpoints", "getExpectedLatency",
           "getRequestedBandwidth">>

RECURSIVE SelectorCallsOf(_)
SelectorCallsOf(flows) ==
    IF flows = <<>> THEN <<>>
    ELSE FlowCalls(Head(flows).tele) \o SelectorCallsOf(Tail(flows))

SelectorCalls(answer) == <<"getFlowIds">> \o SelectorCallsOf(answer.flows)

RerouteResultsStopOnRaise(sel, reps) ==
    LET stop == IF \E i \in 1..Len(sel) : reps[i] = "raise"
                THEN (CHOOSE i \in 1..Len(sel) :
                         /\ reps[i] = "raise"
                         /\ \A j \in 1..(i - 1) : reps[j] # "raise") - 1
                ELSE Len(sel)
    IN [i \in 1..stop |-> [flowId |-> sel[i], rerouted |-> reps[i] = "true"]]

\* the reroute loop: one entry per selected flow, False when rerouteFlow
\* answers false or raises
RerouteResults(sel, reps) ==
    [i \in 1..Len(sel) |-> [flowId |-> sel[i], rerouted |-> reps[i] = "true"]]

FlowArrayOfLive(initial_flow_ids, lat) == LatencyValuesFrom(lat, 1)

\* flow_array: one slot per initial flow id, 0 when it reports no latency
FlowArray(initial_flow_ids, lat) ==
    [i \in 1..Len(initial_flow_ids) |->
        IF lat[initial_flow_ids[i]].has THEN lat[initial_flow_ids[i]].v ELSE 0]

Encode(e, state) ==
    [i \in 1..e.n_links |-> state.link_utils[i]]
    \o FlowArray(e.initial_flow_ids, state.flow_latencies)

\* the order of the statements of step()
PhaseAfterSkippingPost(p) ==
    CASE p = "CAPTURE_PRE" -> "SELECT"
      [] p = "SELECT" -> "ACT"
      [] p = "ACT" -> "SCORE_REWARD"
      [] p = "CAPTURE_POST" -> "SCORE_REWARD"
      [] p = "SCORE_REWARD" -> "ENCODE"
      [] p = "ENCODE" -> "DONE"
      [] p = "DONE" -> "RETURNED"

PhaseAfter(p) ==
    CASE p = "CAPTURE_PRE" -> "SELECT"
      [] p = "SELECT" -> "ACT"
      [] p = "ACT" -> "CAPTURE_POST"
      [] p = "CAPTURE_POST" -> "SCORE_REWARD"
      [] p = "SCORE_REWARD" -> "ENCODE"
      [] p = "ENCODE" -> "DONE"
      [] p = "DONE" -> "RETURNED"

NoOut == [kind |-> "none", why |-> "", done |-> FALSE]

Raised(why) == [kind |-> "raised", why |-> why, done |-> FALSE]

Returned(done) == [kind |-> "returned", why |-> "", done |-> done]

\* step(), line 153
StepCapturePre ==
    /\ pc = "READY"
    /\ LET s == get_network_state(bridge, env.n_links)
       IN /\ prev_state' = s.state
          /\ calls' = s.calls
          /\ pc' = IF s.raised THEN "RAISED" ELSE PhaseAfter("CAPTURE_PRE")
          /\ out' = IF s.raised THEN Raised(s.why) ELSE NoOut
    /\ op' = "step"
    /\ phases' = <<"CAPTURE_PRE">>
    /\ UNCHANGED <<env, bridge, selected, replies, results, curr_state, reward,
                   obs, sel_vars, rw_vars>>

\* step(), lines 156-161
StepSelect ==
    /\ pc = "SELECT"
    /\ selected' = select_critical_flows_via_bridge(bridge.answer, env.k,
                                                    env.max_reroute_ratio)
    /\ calls' = calls \o SelectorCalls(bridge.answer)
    /\ phases' = Append(phases, "SELECT")
    /\ pc' = PhaseAfter("SELECT")
    /\ UNCHANGED <<env, bridge, op, prev_state, replies, results, curr_state,
                   reward, obs, out, sel_vars, rw_vars>>

\* step(), lines 163-169, then the sleep of line 172
StepAct ==
    /\ pc = "ACT"
    /\ \E reps \in [1..Len(selected) -> {"true", "false", "raise"}] :
          /\ replies' = reps
          /\ results' = RerouteResults(selected, reps)
          /\ calls' = calls \o [i \in 1..Len(results') |-> "rerouteFlow"]
    /\ phases' = Append(phases, "ACT")
    /\ pc' = PhaseAfter("ACT")
    /\ UNCHANGED <<env, bridge, op, prev_state, selected, curr_state, reward,
                   obs, out, sel_vars, rw_vars>>

\* step(), line 175
StepCapturePost ==
    /\ pc = "CAPTURE_POST"
    /\ LET s == get_network_state(bridge, env.n_links)
       IN /\ curr_state' = s.state
          /\ calls' = calls \o s.calls
          /\ pc' = IF s.raised THEN "RAISED" ELSE PhaseAfter("CAPTURE_POST")
          /\ out' = IF s.raised THEN Raised(s.why) ELSE NoOut
    /\ phases' = Append(phases, "CAPTURE_POST")
    /\ UNCHANGED <<env, bridge, op, prev_state, selected, replies, results,
                   reward, obs, sel_vars, rw_vars>>

\* step(), line 178
StepScoreReward ==
    /\ pc = "SCORE_REWARD"
    /\ reward' = calculate_reward(Values(prev_state), Values(curr_state))
    /\ phases' = Append(phases, "SCORE_REWARD")
    /\ pc' = PhaseAfter("SCORE_REWARD")
    /\ UNCHANGED <<env, bridge, op, calls, prev_state, selected, replies,
                   results, curr_state, obs, out, sel_vars, rw_vars>>

\* step(), lines 180-189
StepEncode ==
    /\ pc = "ENCODE"
    /\ obs' = Encode(env, curr_state)
    /\ phases' = Append(phases, "ENCODE")
    /\ pc' = PhaseAfter("ENCODE")
    /\ UNCHANGED <<env, bridge, op, calls, prev_state, selected, replies,
                   results, curr_state, reward, out, sel_vars, rw_vars>>

\* step(), lines 191-201: isRunning, then the info dict, whose
\* max(link_utils.values()) raises ValueError when there is no link
StepDone ==
    /\ pc = "DONE"
    /\ \E running \in BOOLEAN :
          IF env.n_links = 0
          THEN pc' = "RAISED" /\ out' = Raised("ValueError")
          ELSE pc' = PhaseAfter("DONE") /\ out' = Returned(~running)
    /\ calls' = calls \o <<"isRunning", "getTime">>
    /\ phases' = Append(phases, "DONE")
    /\ UNCHANGED <<env, bridge, op, prev_state, selected, replies, results,
                   curr_state, reward, obs, sel_vars, rw_vars>>

\* reset(), lines 205-216
Reset ==
    /\ pc = "READY"
    /\ LET s == get_network_state(bridge, env.n_links)
       IN /\ curr_state' = s.state
          /\ calls' = s.calls
          /\ pc' = IF s.raised THEN "RAISED" ELSE "RETURNED"
          /\ out' = IF s.raised THEN Raised(s.why) ELSE Returned(FALSE)
          /\ obs' = IF s.raised THEN <<>> ELSE Encode(env, s.state)
    /\ op' = "reset"
    /\ UNCHANGED <<env, bridge, phases, prev_state, selected, replies, results,
                   reward, sel_vars, rw_vars>>

\* the caller takes the result (or the exception); the locals are gone
Return ==
    /\ pc \in {"RETURNED", "RAISED"}
    /\ pc' = "READY"
    /\ op' = "none"
    /\ phases' = <<>>
    /\ calls' = <<>>
    /\ prev_state' = NoState
    /\ selected' = <<>>
    /\ replies' = <<>>
    /\ results' = <<>>
    /\ curr_state' = NoState
    /\ reward' = <<0, 1>>
    /\ obs' = <<>>
    /\ out' = NoOut
    /\ UNCHANGED <<env, bridge, sel_vars, rw_vars>>

\* between calls the simulation moves on: the bridge lists other flows
BridgeFlowsChange ==
    /\ pc = "READY"
    /\ \E a \in EnvAnswers : bridge' = [bridge EXCEPT !.answer = a]
    /\ UNCHANGED <<env, pc, op, phases, calls, prev_state, selected, replies,
                   results, curr_state, reward, obs, out, sel_vars, rw_vars>>

\* between calls, and during the sleep that lets a reroute propagate, link
\* utilization moves
BridgeLinksChange ==
    /\ pc \in {"READY", "CAPTURE_POST"}
    /\ \E u \in [1..env.n_links -> UtilReadings] : bridge' = [bridge EXCEPT !.utils = u]
    /\ UNCHANGED <<env, pc, op, phases, calls, prev_state, selected, replies,
                   results, curr_state, reward, obs, out, sel_vars, rw_vars>>

-----------------------------------------------------------------------------
(* Specifications *)

SelIdle ==
    /\ selector = "none"
    /\ max_reroute_ratio = 15
    /\ flow_stats = <<>>
    /\ link_stats = [l \in LinkPool |-> UnknownLink]
    /\ last_update_time = 0
    /\ decided_at = 0
    /\ mgr_call = NoCall
    /\ impact_call = NoImpactCall
    /\ br_in = NoBridgeInput
    /\ br_ret = NotCalled

EnvIdle ==
    /\ env = [n_links |-> 0, initial_flow_ids |-> <<>>, n_flows |-> 0, k |-> 10,
              max_reroute_ratio |-> 15]
    /\ bridge = [answer |-> NullFlowIds, utils |-> <<>>]
    /\ pc = "NONE"
    /\ op = "none"
    /\ phases = <<>>
    /\ calls = <<>>
    /\ prev_state = NoState
    /\ selected = <<>>
    /\ replies = <<>>
    /\ results = <<>>
    /\ curr_state = NoState
    /\ reward = <<0, 1>>
    /\ obs = <<>>
    /\ out = NoOut

RewardIdle ==
    /\ rw_in = [prev |-> EmptySnapshot, curr |-> EmptySnapshot]
    /\ rw_ret = NoReward

\* The selectors: an RLFlowManager fed by pushes, or one call of the bridge
\* helper on drawn arguments
InitSel ==
    /\ selector \in {"RLFlowManager", "via_bridge"}
    /\ flow_stats = <<>>
    /\ link_stats = [l \in LinkPool |-> UnknownLink]
    /\ last_update_time = 0
    /\ decided_at = 0
    /\ mgr_call = NoCall
    /\ impact_call = NoImpactCall
    /\ br_ret = NotCalled
    /\ IF selector = "RLFlowManager"
       THEN max_reroute_ratio \in RatioPcts /\ br_in = NoBridgeInput
       ELSE max_reroute_ratio = 15 /\ br_in \in BridgeInputs
    /\ EnvIdle
    /\ RewardIdle

NextSel ==
    \/ \E u \in FlowUpdates : UpdateFlowStats(u[1], u[2])
    \/ \E u \in LinkUpdates : UpdateLinkStats(u[1], u[2])
    \/ \E t \in Times, k \in Ks : SelectCriticalFlows(t, k)
    \/ BridgeSelect

SpecSel == InitSel /\ [][NextSel]_vars

\* A CloudSimSDNEnv after __init__ (the bridge then listed flows 1..n_flows),
\* driven by reset() and step() calls while the bridge's answers change
InitEnv ==
    /\ \E nl \in 0..EnvMaxLinks, nf \in 0..EnvMaxFlows, kr \in EnvParams :
          /\ env = [n_links |-> nl, initial_flow_ids |-> [i \in 1..nf |-> i],
                    n_flows |-> nf, k |-> kr[1], max_reroute_ratio |-> kr[2]]
          /\ bridge \in { [answer |-> a, utils |-> u] :
                            a \in EnvAnswers, u \in [1..nl -> UtilReadings] }
    /\ pc = "READY"
    /\ op = "none"
    /\ phases = <<>>
    /\ calls = <<>>
    /\ prev_state = NoState
    /\ selected = <<>>
    /\ replies = <<>>
    /\ results = <<>>
    /\ curr_state = NoState
    /\ reward = <<0, 1>>
    /\ obs = <<>>
    /\ out = NoOut
    /\ SelIdle
    /\ RewardIdle

NextEnv ==
    \/ StepCapturePre
    \/ StepSelect
    \/ StepAct
    \/ StepCapturePost
    \/ StepScoreReward
    \/ StepEncode
    \/ StepDone
    \/ Reset
    \/ Return
    \/ BridgeFlowsChange
    \/ BridgeLinksChange

SpecEnv == InitEnv /\ [][NextEnv]_vars

\* calculate_congestion_impact on drawn registries and flow ids, one id
\* more than any registry holds
InitImpact ==
    /\ selector = "impact"
    /\ max_reroute_ratio = 15
    /\ flow_stats \in {RegistryOf(r) : r \in ImpactRegistries(MaxFlows)}
    /\ link_stats \in [LinkPool -> ImpactLinks]
    /\ last_update_time = 0
    /\ decided_at = 0
    /\ mgr_call = NoCall
    /\ impact_call = NoImpactCall
    /\ br_in = NoBridgeInput
    /\ br_ret = NotCalled
    /\ EnvIdle
    /\ RewardIdle

NextImpact == \E flow_id \in 1..(MaxFlows + 1) : CalculateCongestionImpact(flow_id)

SpecImpact == InitImpact /\ [][NextImpact]_vars

\* _calculate_reward on drawn snapshots
InitReward ==
    /\ rw_in \in { [prev |-> p, curr |-> c] : p \in Snapshots, c \in Snapshots }
    /\ rw_ret = NoReward
    /\ SelIdle
    /\ EnvIdle

NextReward == CalculateReward

SpecReward == InitReward /\ [][NextReward]_vars

-----------------------------------------------------------------------------
(* Properties of the selectors, under SpecSel *)

MgrSelected == mgr_call.op = "select"

MgrRanking == Ids(PySortedDesc(flow_impacts(flow_stats, link_stats)))

MgrScore(id) == calculate_congestion_impact(flow_stats, link_stats, id)

MgrPos(id) == FlowIndex(flow_stats, id)

BrFlows == br_in.answer.flows

BrPos(id) == CHOOSE i \in 1..Len(BrFlows) : BrFlows[i].id = id

BrScore(id) == LatencyRatioScore(BrFlows[BrPos(id)].tele)

\* the number of scored flows of the bridge call
BrScored == Len(BridgeScores(BrFlows))

\* max(1, floor(n * ratio))
SpecBudget(n, ratio) == Max(1, Floor(n * ratio, 100))

\* C1: for every input (any flows and scores, any ratio, any integer k),
\* the list either selector returns is no longer than
\* max(1, floor(N * max_reroute_ratio)), N the number of scored flows, and
\* no longer than k.  (No list is shorter than a negative k, so for k < 0
\* only the first bound is asked here.)
C1_WithinBudgetAndK ==
    /\ MgrSelected =>
          /\ Len(mgr_call.ret) <= SpecBudget(Len(flow_stats), max_reroute_ratio)
          /\ mgr_call.k >= 0 => Len(mgr_call.ret) <= mgr_call.k
    /\ br_ret.called =>
          /\ Len(br_ret.ret) <= SpecBudget(BrScored, br_in.ratio)
          /\ br_in.k >= 0 => Len(br_ret.ret) <= br_in.k

\* C3: a select_critical_flows call made less than update_interval after the
\* most recent call that computed a selection (after time 0 when there is
\* none) returns the empty list, computes no score and leaves
\* last_update_time where it was.
C3_GatedCallIsEmpty ==
    (MgrSelected /\ mgr_call.now - mgr_call.since < update_interval) =>
        /\ mgr_call.ret = <<>>
        /\ ~mgr_call.computed
        /\ last_update_time = mgr_call.last_before

\* a computing call is followed by a call at the same current_time
C3_Witness ==
    /\ MgrSelected
    /\ mgr_call.since > 0
    /\ mgr_call.now = mgr_call.since
    /\ Len(flow_stats) > 0

OrderedByScoreThenPosition(ret, Score(_), Pos(_)) ==
    \A i, j \in 1..Len(ret) :
        i < j =>
            \/ RatLess(Score(ret[j]), Score(ret[i]))
            \/ RatEq(Score(ret[i]), Score(ret[j])) /\ Pos(ret[i]) < Pos(ret[j])

\* C8: the list either selector returns is in descending order of score, and
\* flows of equal score keep their enumeration order (insertion order of
\* the registry, order of the bridge's flow-id list).
C8_DescendingStable ==
    /\ MgrSelected => OrderedByScoreThenPosition(mgr_call.ret, MgrScore, MgrPos)
    /\ br_ret.called => OrderedByScoreThenPosition(br_ret.ret, BrScore, BrPos)

\* two flows of equal positive score are returned, the one enumerated first
\* having the larger id
C8_Witness ==
    /\ br_ret.called
    /\ Len(br_ret.ret) >= 2
    /\ RatEq(BrScore(br_ret.ret[1]), BrScore(br_ret.ret[2]))
    /\ br_ret.ret[1] > br_ret.ret[2]

IsPrefixOfLen(ret, full, n) ==
    /\ Len(ret) = n
    /\ \A i \in 1..n : ret[i] = full[i]

\* C9 as stated: a non-gated select_critical_flows call with N known flows
\* and k >= 1 uses budget = max(1, floor(N * ratio)), effective_k =
\* min(k, budget), and returns exactly the top min(effective_k, N) ids of
\* the ranking, so at least one id when a flow is known.
C9_BudgetAtLeastOne ==
    (MgrSelected /\ mgr_call.computed /\ mgr_call.k >= 1) =>
        LET n == Len(flow_stats)
            effective_k == Min(mgr_call.k, SpecBudget(n, max_reroute_ratio))
        IN /\ IsPrefixOfLen(mgr_call.ret, MgrRanking, Min(effective_k, n))
           /\ n >= 1 => Len(mgr_call.ret) >= 1

\* C9 amended: the budget is int(N * ratio) with no floor of 1 and
\* effective_k = min(k, budget); the call returns the top
\* min(effective_k, N) ids of the ranking when effective_k >= 0 (none when
\* 0 <= N * ratio < 1) and all but the last -effective_k when it is negative.
C9_BudgetIsTruncation ==
    (MgrSelected /\ mgr_call.computed /\ mgr_call.k >= 1) =>
        LET n == Len(flow_stats)
            budget == IF max_reroute_ratio >= 0
                      THEN (n * max_reroute_ratio) \div 100
                      ELSE -((n * (-max_reroute_ratio)) \div 100)
            effective_k == Min(mgr_call.k, budget)
        IN /\ effective_k >= 0 =>
                IsPrefixOfLen(mgr_call.ret, MgrRanking, Min(effective_k, n))
           /\ effective_k < 0 =>
                IsPrefixOfLen(mgr_call.ret, MgrRanking, Max(0, n + effective_k))
           /\ (max_reroute_ratio >= 0 /\ n * max_reroute_ratio < 100) =>
                mgr_call.ret = <<>>

\* flows are known, the call computes, and nothing is returned
C9_Witness ==
    /\ MgrSelected /\ mgr_call.computed /\ mgr_call.k >= 1
    /\ Len(flow_stats) >= 1
    /\ max_reroute_ratio = 15
    /\ mgr_call.ret = <<>>

-----------------------------------------------------------------------------
(* Properties of CloudSimSDNEnv, under SpecEnv *)

StepPhases ==
    <<"CAPTURE_PRE", "SELECT", "ACT", "CAPTURE_POST", "SCORE_REWARD", "ENCODE",
      "DONE">>

HasPhase(p) == \E i \in 1..Len(phases) : phases[i] = p

\* the step has been through its reroute loop
Acted == op = "step" /\ HasPhase("ACT")

RerouteCalls == Cardinality({i \in 1..Len(calls) : calls[i] = "rerouteFlow"})

LiveFlows == IF bridge.answer.null THEN <<>> ELSE bridge.answer.flows

\* flows the bridge lists during the call
EnvListed == Len(LiveFlows)

\* flows the selector could score: no call raised, endpoints present
EnvScored ==
    Cardinality({i \in 1..Len(LiveFlows) :
                    /\ LiveFlows[i].tele.fault = "none"
                    /\ LiveFlows[i].tele.endpoints # "none"})

\* C2 as stated: in one step the number of rerouteFlow calls never exceeds
\* floor(total_known_flows * max_reroute_ratio), also when that floor is 0.
C2_ReroutesWithinFloor ==
    Acted => RerouteCalls <= Floor(EnvListed * env.max_reroute_ratio, 100)

\* C2 amended: in one step the number of rerouteFlow calls never exceeds
\* min(k, max(1, floor(N * max_reroute_ratio))) when k >= 0, N the number of
\* flows the selector scored, so one reroute is allowed where the floor is
\* 0; with k < 0 it never exceeds max(0, N + k).
C2_ReroutesWithinBudget ==
    Acted =>
        /\ env.k >= 0 =>
              RerouteCalls <= Min(env.k, SpecBudget(EnvScored, env.max_reroute_ratio))
        /\ env.k < 0 => RerouteCalls <= Max(0, EnvScored + env.k)

\* one flow is known, floor(1 * 0.15) = 0, and its reroute is requested
C2_Witness ==
    /\ Acted
    /\ EnvListed = 1
    /\ env.k = 10 /\ env.max_reroute_ratio = 15
    /\ RerouteCalls = 1

\* C4: the observation reset() and every step() return has length
\* n_links + n_flows as fixed at construction, whatever flow ids the bridge
\* lists at the time of the call.
C4_ObservationLength ==
    /\ env.n_flows = Len(env.initial_flow_ids)
    /\ pc = "RETURNED" => Len(obs) = env.n_links + env.n_flows

\* a step returns while the bridge lists more flows than at construction,
\* each of them with a latency in the snapshot
C4_Witness ==
    /\ pc = "RETURNED" /\ op = "step"
    /\ EnvListed > env.n_flows
    /\ \A i \in 1..EnvListed : curr_state.flow_latencies[LiveFlows[i].id].has

IsPhasePrefix(ps) ==
    /\ Len(ps) <= Len(StepPhases)
    /\ \A i \in 1..Len(ps) : ps[i] = StepPhases[i]

\* C5 as stated: the phases of a step occur in the order CAPTURE_PRE,
\* SELECT, ACT, CAPTURE_POST, SCORE_REWARD, ENCODE, DONE, except that a
\* step that finds the source not running reaches DONE early, with
\* done=true, leaving out earlier phases.
C5_DoneEarlyWhenNotRunning ==
    op = "step" =>
        /\ (pc = "RETURNED" /\ ~out.done) => phases = StepPhases
        /\ (pc = "RETURNED" /\ out.done) =>
              /\ Len(phases) < Len(StepPhases)
              /\ phases[Len(phases)] = "DONE"

\* C5 amended: the phases of a step occur strictly in that order with none
\* left out, the reroute requests come after every pre-action read and
\* before every post-action read, isRunning is read only after ENCODE, and
\* a step that returns, with done=true or done=false, has been through all
\* seven phases; a step that raises stops at the phase that raised.
C5_AllPhasesInOrder ==
    op = "step" =>
        /\ IsPhasePrefix(phases)
        /\ pc = "RETURNED" => phases = StepPhases
        /\ (pc \notin {"RETURNED", "RAISED"}) => pc = StepPhases[Len(phases) + 1]
        /\ \A i \in 1..(Len(calls) - 1) :
              (calls[i] = "rerouteFlow" /\ calls[i + 1] # "rerouteFlow") =>
                  /\ HasPhase("CAPTURE_POST")
                  /\ \A h \in (i + 1)..Len(calls) : calls[h] # "rerouteFlow"
        /\ \A i \in 1..Len(calls) :
              calls[i] = "isRunning" => HasPhase("ENCODE") /\ i = Len(calls) - 1

\* a step that rerouted a flow finds the source not running and returns
\* done=true after all seven phases
C5_Witness ==
    /\ op = "step" /\ pc = "RETURNED"
    /\ out.done
    /\ phases = StepPhases
    /\ RerouteCalls >= 1

\* C6: a rerouteFlow request that answers false or raises does not abort the
\* step: results holds one entry per selected flow, in selection order,
\* with rerouted true exactly when the request answered true, and one
\* request is made per selected flow.
C6_FailedRerouteIsRecorded ==
    Acted =>
        /\ Len(results) = Len(selected)
        /\ \A i \in 1..Len(selected) :
              /\ results[i].flowId = selected[i]
              /\ results[i].rerouted = (replies[i] = "true")
        /\ RerouteCalls = Len(selected)
        /\ phases[Len(phases)] = "ACT" => pc = "CAPTURE_POST"

\* the first of two requests raises, the second answers true, and the
\* step returns
C6_Witness ==
    /\ op = "step" /\ pc = "RETURNED"
    /\ Len(selected) = 2
    /\ replies[1] = "raise" /\ replies[2] = "true"
    /\ results[2].rerouted

\* C7: when getFlowIds() answers None, step() and reset() treat it as an
\* empty collection and complete with an empty selection rather than raising.
C7_NullFlowIdsDoNotRaise ==
    (op \in {"step", "reset"} /\ bridge.answer.null) =>
        /\ out.kind # "raised"
        /\ selected = <<>>

-----------------------------------------------------------------------------
(* Properties of _calculate_reward, under SpecReward *)

RatWithin(r, lo, hi) == r[2] > 0 /\ lo * r[2] <= r[1] /\ r[1] <= hi * r[2]

\* C10: for every pair of snapshots _calculate_reward returns a number in
\* [-100, 100], and 0 when both snapshots hold no link utilization and no
\* flow latency.
C10_RewardBounded ==
    rw_ret.called =>
        /\ RatWithin(rw_ret.ret, -RewardCap, RewardCap)
        /\ (rw_in.prev = EmptySnapshot /\ rw_in.curr = EmptySnapshot) =>
              rw_ret.ret[1] = 0

\* latencies fall from 5000.0 to 30.0: the weighted sum is cut to 100
C10_Witness ==
    /\ rw_ret.called
    /\ rw_in.prev.flow_latencies = <<Num(50000)>>
    /\ rw_in.curr.flow_latencies = <<Num(300)>>
    /\ rw_ret.ret = <<RewardCap, 1>>

-----------------------------------------------------------------------------
(* Properties of the observation and of snapshot capture, under SpecEnv *)

\* C11: every entry of the observation reset() and step() return is a
\* number, not NaN, finite, at least 0 and at most 1.0, link utilizations
\* and flow latencies alike.
C11_ObservationInUnitRange ==
    pc = "RETURNED" =>
        \A i \in 1..Len(obs) : 0 <= obs[i] /\ obs[i] <= MaxUtil

\* the snapshot a call captured first: prev_state in step(), state in reset()
FirstCapture == IF op = "step" THEN prev_state ELSE curr_state

\* C15: during snapshot capture a fault on one flow (its id does not convert,
\* or getFlowAvgLatency raises) sets only that flow's latency to 0.0: the
\* capture does not raise, whichever flow of the list is the faulty one, and
\* every flow without a fault has its own normalized latency in the
\* snapshot.
C15_FaultNeutralizesOnlyItsItem ==
    (op \in {"step", "reset"} /\ ~bridge.answer.null) =>
        /\ out.why # "UnboundLocalError"
        /\ \A i \in 1..Len(LiveFlows) :
              LiveFlows[i].tele.fault = "none" =>
                  FirstCapture.flow_latencies[LiveFlows[i].id] =
                      [has |-> TRUE,
                       v |-> normalize_value(Num(LiveFlows[i].tele.obs), FALSE)]

-----------------------------------------------------------------------------
(* Properties of calculate_congestion_impact, under SpecImpact *)

\* utilization/capacity + queue_length/capacity of the i-th link of a path,
\* 0 when the registry does not know the link
LinkTerm(path, i) ==
    LET link == link_stats[path[i]]
    IN IF link.known
       THEN Rat(link.utilization + link.queue_length, link.capacity)
       ELSE <<0, 1>>

RECURSIVE LinkTermsUpTo(_, _)
LinkTermsUpTo(path, n) ==
    IF n = 0 THEN <<0, 1>>
    ELSE RatAdd(LinkTermsUpTo(path, n - 1), LinkTerm(path, n))

\* bandwidth(f) times the sum of the link terms of f's path
ImpactByFormula(flow_id) ==
    IF flow_id > Len(flow_stats) THEN <<0, 1>>
    ELSE LET f == flow_stats[flow_id]
             sum == LinkTermsUpTo(f.current_path, Len(f.current_path))
         IN Rat(f.bandwidth * sum[1], 10 * sum[2])

AllLinksUnknown(path) == \A i \in 1..Len(path) : ~link_stats[path[i]].known

\* C12: calculate_congestion_impact(f) is bandwidth(f) times the sum, over
\* the links of f's path the registry knows, of utilization/capacity +
\* queue_length/capacity; an unknown flow, a flow with an empty path and a
\* flow whose path links are all unknown score 0.
C12_ImpactIsBandwidthTimesLinkTerms ==
    impact_call.called =>
        /\ RatEq(impact_call.ret, ImpactByFormula(impact_call.flow_id))
        /\ impact_call.flow_id > Len(flow_stats) => impact_call.ret[1] = 0
        /\ (/\ impact_call.flow_id <= Len(flow_stats)
            /\ AllLinksUnknown(flow_stats[impact_call.flow_id].current_path)) =>
              impact_call.ret[1] = 0

\* flow 1 of bandwidth 2.0 on L1 (utilization 0.9, capacity 1.0, queue 0.2)
\* scores 2.2 = 11/5
C12_Witness ==
    /\ impact_call.called /\ impact_call.flow_id = 1
    /\ Len(flow_stats) >= 1
    /\ flow_stats[1].bandwidth = 20 /\ flow_stats[1].current_path = <<"L1">>
    /\ link_stats["L1"] =
          [known |-> TRUE, utilization |-> 9, capacity |-> 10, queue_length |-> 2]
    /\ impact_call.ret = <<11, 5>>

-----------------------------------------------------------------------------
(* Properties of the latency-ratio scores, under SpecSel *)

BridgeCalled == br_ret.called /\ ~br_in.answer.null

InRet(id) == \E j \in 1..Len(br_ret.ret) : br_ret.ret[j] = id

\* ratio * max(1.0, bandwidth), ratio = (obs - exp)/exp when obs > 0 and
\* exp > 0 and 0 otherwise
ScoreByFormula(t) ==
    LET ratio == IF t.obs > 0 /\ t.exp > 0 THEN Rat(t.obs - t.exp, t.exp)
                 ELSE <<0, 1>>
        bandwidth == IF t.bw >= 10 THEN t.bw ELSE 10
    IN Rat(ratio[1] * bandwidth, ratio[2] * 10)

HasFault(t) == t.fault # "none" \/ t.endpoints = "none"

RECURSIVE WithoutFaulty(_)
WithoutFaulty(flows) ==
    IF flows = <<>> THEN <<>>
    ELSE IF HasFault(Head(flows).tele) THEN WithoutFaulty(Tail(flows))
         ELSE <<Head(flows)>> \o WithoutFaulty(Tail(flows))

\* C14: a per-flow telemetry call that raises, or absent endpoints, excludes
\* only that flow: it is never selected, and the scores and the selection
\* are those of the flow list without the faulty flows.
C14_FaultExcludesOnlyItsFlow ==
    BridgeCalled =>
        /\ \A i \in 1..Len(BrFlows) :
              HasFault(BrFlows[i].tele) => ~InRet(BrFlows[i].id)
        /\ BridgeScores(BrFlows) = BridgeScores(WithoutFaulty(BrFlows))
        /\ br_ret.ret =
              select_critical_flows_via_bridge(
                  [null |-> FALSE, flows |-> WithoutFaulty(BrFlows)],
                  br_in.k, br_in.ratio)

\* getRequestedBandwidth raises for one flow, another has no endpoints, and
\* a third flow is selected
C14_Witness ==
    /\ BridgeCalled
    /\ br_ret.ret # <<>>
    /\ \E i, j \in 1..Len(BrFlows) :
          /\ BrFlows[i].tele.fault = "bandwidth"
          /\ BrFlows[j].tele.endpoints = "none"

IsPositive(item) == RatPositive(item.score)

FirstN(items, n) == SubSeq(items, 1, Min(n, Len(items)))

BrRanking == PySortedDesc(BridgeScores(BrFlows))

BrEffectiveK == Min(br_in.k, SpecBudget(BrScored, br_in.ratio))

\* C16: for k >= 0 the result is the first effective_k entries of the
\* descending ranking restricted to the flows of score > 0, effective_k =
\* min(k, max(1, floor(N * ratio))) over the N scored flows.
C16_FilterThenTruncate ==
    (BridgeCalled /\ br_in.k >= 0) =>
        br_ret.ret = Ids(FirstN(SelectSeq(BrRanking, IsPositive), BrEffectiveK))

\* the first effective_k entries of the ranking hold a flow of score <= 0,
\* which the result leaves out
C16_Witness ==
    /\ BridgeCalled /\ br_in.k >= 0
    /\ BrEffectiveK >= 2
    /\ Len(BrRanking) >= 2
    /\ ~RatPositive(BrRanking[2].score)
    /\ Len(br_ret.ret) = 1

=============================================================================
